---- MODULE Spec2Model ----
(***************************************************************************)
(* Model of the Titanic dashboard's data-transformation layer              *)
(* (src/apputil.py): the cached loader _load_titanic and the aggregators   *)
(* survival_demographics, family_groups, last_names,                       *)
(* determine_age_division and the visualize_* wrappers.                    *)
(*                                                                         *)
(* Conventions.  A data frame is a sequence of rows, a row is a function   *)
(* from column names to cells.  An optional cell is <<>> when missing      *)
(* (NaN) and <<v>> when present.  Ages are decimal in the data; they are   *)
(* kept as integers counting 1/AgeScale of a year.  Quotients the code     *)
(* computes in floating point are kept as exact fractions <<num, den>>.    *)
(* Names are sequences of characters.  The columns Ticket, Cabin and       *)
(* Embarked are read by no function and are left out of the rows.          *)
(***************************************************************************)
EXTENDS Integers, Sequences, FiniteSets, TLC

VARIABLES
    source,     \* the table the remote CSV parses to (what pd.read_csv yields)
    cache,      \* lru_cache of _load_titanic: <<>> when empty, <<table>> when filled
    instance,   \* identity of the cached DataFrame object (0: none yet)
    fetches,    \* number of pd.read_csv calls started so far
    pc,         \* per thread: position inside _load_titanic
    got,        \* per thread: identity of the DataFrame object it is reading or
                \* was last returned by _load_titanic (0: none)
    demo,       \* last result of survival_demographics  (<<>>: not called yet)
    fam,        \* last result of family_groups
    names,      \* last result of last_names
    aged,       \* last result of determine_age_division
    division,   \* last table grouped by visualize_age_division
    raised,     \* TRUE when the last call ended in an uncaught fetch error
    equal_levels \* whether the installed pandas finds an index whose age_group
                \* level is categorical identical to one with the same labels
                \* as plain strings (its versions differ on this)

vars == <<source, cache, instance, fetches, pc, got, demo, fam, names, aged, division,
          raised, equal_levels>>

----------------------------------------------------------------------------
(* Bounds of the model *)

MaxRows == 2        \* rows of a roster in the demographic / family / name runs
MaxAgeRows == 3     \* rows of a roster in the age-division runs
MaxFetches == 2     \* failing downloads are retried at most up to this many fetches
AgeScale == 2       \* an age is an integer number of 1/AgeScale years

----------------------------------------------------------------------------
(* Cells and small helpers *)

NA == <<>>
IsNA(c) == c = <<>>
Some(v) == <<v>>
Val(c) == c[1]

Years(y) == y * AgeScale

\* the sequence s as the tuple of its elements, each computed once
Tuple(s) == s \o <<>>

RECURSIVE SumSeq(_)
SumSeq(s) == IF s = <<>> THEN 0 ELSE Head(s) + SumSeq(Tail(s))

\* the sub-sequence of s whose elements satisfy the boolean mask m
RECURSIVE Mask(_, _)
Mask(s, m) ==
    IF s = <<>> THEN <<>>
    ELSE (IF Head(m) THEN <<Head(s)>> ELSE <<>>) \o Mask(Tail(s), Tail(m))

\* lexicographic order on integer tuples of equal length
RECURSIVE LexLess(_, _)
LexLess(a, b) ==
    /\ a # <<>>
    /\ \/ Head(a) < Head(b)
       \/ Head(a) = Head(b) /\ LexLess(Tail(a), Tail(b))

\* for every index j of keys, the number of indices that a stable ascending
\* sort puts before it: those with a smaller key and the earlier ones with
\* an equal key
Before(keys) ==
    Tuple([j \in 1..Len(keys) |->
        Cardinality({k \in 1..Len(keys) :
            \/ LexLess(keys[k], keys[j])
            \/ k < j /\ ~LexLess(keys[j], keys[k])})])

Permutation(before) ==
    Tuple([i \in 1..Len(before) |-> CHOOSE j \in 1..Len(before) : before[j] = i - 1])

\* stable argsort: the indices of keys in ascending key order
ArgSort(keys) == Permutation(Before(keys))

Reorder(rows, idx) == Tuple([i \in 1..Len(rows) |-> rows[idx[i]]])

\* DataFrame.sort_values(...).reset_index(drop=True): rows in key order
SortRows(rows, keys) == Reorder(rows, ArgSort(keys))

\* sorted(series.dropna().unique()) for an integer column
RECURSIVE SortedInts(_)
SortedInts(S) ==
    IF S = {} THEN <<>>
    ELSE LET m == CHOOSE x \in S : \A y \in S : x <= y
         IN <<m>> \o SortedInts(S \ {m})

\* Python's order on the strings the code sorts (code-point order)
Lexicon == <<"Adult", "Child", "Senior", "Teen", "female", "male">>
StrRank(s) == CHOOSE i \in 1..Len(Lexicon) : Lexicon[i] = s

\* sorted(series.dropna().unique()) for a string column
RECURSIVE SortedStrs(_)
SortedStrs(S) ==
    IF S = {} THEN <<>>
    ELSE LET m == CHOOSE x \in S : \A y \in S : StrRank(x) <= StrRank(y)
         IN <<m>> \o SortedStrs(S \ {m})

Range(s) == {s[i] : i \in 1..Len(s)}

\* df[col] = vals  (a new column, or an existing one overwritten)
WithColumn(df, col, vals) ==
    Tuple([i \in 1..Len(df) |-> (col :> vals[i]) @@ df[i]])

----------------------------------------------------------------------------
(* survival_demographics *)

bins == <<0, 12, 19, 59, 120>>
labels == <<"Child", "Teen", "Adult", "Senior">>

\* cut with right=False: bucket i is [bins[i], bins[i+1])
cut_left(age) ==
    IF IsNA(age) THEN NA
    ELSE LET x == Val(age)
             hit == {i \in 1..Len(labels) :
                        /\ Years(bins[i]) <= x
                        /\ \/ x < Years(bins[i + 1])
                           \/ i = Len(labels) /\ x = Years(bins[i + 1])}
         IN IF hit = {} THEN NA ELSE Some(labels[CHOOSE i \in hit : TRUE])

\* pd.cut(age, bins, labels, right=True, include_lowest=True) for one cell:
\* bucket i is (bins[i], bins[i+1]], the first one also takes bins[1] itself
cut(age) ==
    IF IsNA(age) THEN NA
    ELSE LET x == Val(age)
             hit == {i \in 1..Len(labels) :
                        /\ \/ Years(bins[i]) < x
                           \/ i = 1 /\ x = Years(bins[1])
                        /\ x <= Years(bins[i + 1])}
         IN IF hit = {} THEN NA ELSE Some(labels[CHOOSE i \in hit : TRUE])

\* MultiIndex.from_product([a, b, c]) as the sequence of its tuples
from_product(a, b, c) ==
    Tuple([k \in 1..(Len(a) * Len(b) * Len(c)) |->
        << a[((k - 1) \div (Len(b) * Len(c))) + 1],
           b[(((k - 1) \div Len(c)) % Len(b)) + 1],
           c[((k - 1) % Len(c)) + 1] >>])

\* agg_survived with "count" for both columns
agg_survived_count(rows) ==
    [n_passengers |-> Len(rows), n_survivors |-> Len(rows)]

\* .agg(n_passengers=("Survived","count"), n_survivors=("Survived","sum"))
\* over the rows of one group
agg_survived(rows) ==
    [n_passengers |-> Len(rows),
     n_survivors  |-> SumSeq(Tuple([i \in 1..Len(rows) |-> rows[i].Survived]))]

\* df.dropna(subset=["age_group"]): the rows that got an age group
with_group(df) == Mask(df, Tuple([i \in 1..Len(df) |-> ~IsNA(df[i].age_group)]))

\* The index of .groupby(["Pclass", "Sex", "age_group"], observed=False):
\* with observed=False the keys are the product of the classes and the
\* sexes of the grouped rows with ALL categories of age_group, in order.
groupby_index(kept) ==
    from_product(SortedInts({kept[i].Pclass : i \in 1..Len(kept)}),
                 SortedStrs({kept[i].Sex : i \in 1..Len(kept)}),
                 labels)

\* ....agg(...): the mapping from the group keys to the aggregates; a key
\* without rows has count 0 and sum 0
groupby_demographics(kept) ==
    [k \in Range(groupby_index(kept)) |->
        agg_survived(Mask(kept, Tuple([i \in 1..Len(kept) |->
            /\ kept[i].Pclass = k[1]
            /\ kept[i].Sex = k[2]
            /\ Val(kept[i].age_group) = k[3]])))]

\* DataFrame.reindex hands back a copy of the frame as it is, with its own
\* index, when that index is identical to the target; otherwise the result
\* gets the target as its index.  The age_group level of the groupby index
\* is categorical, that of full_index holds plain strings.
keeps_own_index(own, target) == equal_levels /\ own = target

\* reindex_reset without filling: only the keys the groupby produced
reindex_unfilled(grouped, target) ==
    Mask(Tuple([j \in 1..Len(target) |->
                 [Pclass |-> target[j][1], Sex |-> target[j][2], age_group |-> target[j][3],
                  n_passengers |-> IF target[j] \in DOMAIN grouped
                                   THEN grouped[target[j]].n_passengers ELSE 0,
                  n_survivors |-> IF target[j] \in DOMAIN grouped
                                  THEN grouped[target[j]].n_survivors ELSE 0]]),
         Tuple([j \in 1..Len(target) |-> target[j] \in DOMAIN grouped]))

\* .reindex(full_index, fill_value=0).reset_index()
reindex_reset(grouped, target) ==
    Tuple([j \in 1..Len(target) |->
        LET k == target[j]
            a == IF k \in DOMAIN grouped THEN grouped[k]
                 ELSE [n_passengers |-> 0, n_survivors |-> 0]
        IN [Pclass |-> k[1], Sex |-> k[2], age_group |-> k[3],
            n_passengers |-> a.n_passengers, n_survivors |-> a.n_survivors]])

\* lambda r: 0 if r.n_passengers == 0 else r.n_survivors / r.n_passengers
survival_rate(r) ==
    IF r.n_passengers = 0 THEN <<0, 1>> ELSE <<r.n_survivors, r.n_passengers>>

\* the rank of a label among the categories of the categorical age_group
CatRank(label) == CHOOSE i \in 1..Len(labels) : labels[i] = label

\* The sort key of the age_group column in sort_values.  A categorical
\* column sorts in the order of its categories.  A column that came out of
\* full_index (built from the plain list `labels`) holds plain strings and
\* sorts as strings do.
age_group_key(label, categorical) ==
    IF categorical THEN CatRank(label) ELSE StrRank(label)

\* grouped["survival_rate"] = grouped.apply(..., axis=1)
with_rate(grouped) ==
    Tuple([j \in 1..Len(grouped) |->
        ("survival_rate" :> survival_rate(grouped[j])) @@ grouped[j]])

\* grouped.sort_values(["Pclass", "Sex", "age_group"]).reset_index(drop=True)
sort_demographics(grouped, categorical) ==
    SortRows(grouped, Tuple([j \in 1..Len(grouped) |->
        <<grouped[j].Pclass, StrRank(grouped[j].Sex),
          age_group_key(grouped[j].age_group, categorical)>>]))

\* full_index = pd.MultiIndex.from_product([pclasses, sexes, age_cats])
full_index(df) ==
    from_product(SortedInts({df[i].Pclass : i \in 1..Len(df)}),
                 SortedStrs({df[i].Sex : i \in 1..Len(df)}),
                 labels)

\* the statements of survival_demographics after df got its age_group column
grouped_demographics(df) ==
    sort_demographics(
        with_rate(reindex_reset(groupby_demographics(with_group(df)), full_index(df))),
        keeps_own_index(groupby_index(with_group(df)), full_index(df)))

\* df["age_group"] = pd.cut(df["Age"], ...)
with_age_group(df) ==
    WithColumn(df, "age_group", Tuple([i \in 1..Len(df) |-> cut(df[i].Age)]))

----------------------------------------------------------------------------
(* family_groups *)

\* series.fillna(0) for one cell
fillna0(c) == IF IsNA(c) THEN 0 ELSE Val(c)

\* family_size without the passenger itself
family_size_others(r) == fillna0(r.SibSp) + fillna0(r.Parch)

\* df["SibSp"].fillna(0) + df["Parch"].fillna(0) + 1 for one row
family_size(r) == fillna0(r.SibSp) + fillna0(r.Parch) + 1

\* the keys of a groupby in ascending order (groupby sorts its keys)
RECURSIVE SortedKeys(_)
SortedKeys(S) ==
    IF S = {} THEN <<>>
    ELSE LET m == CHOOSE x \in S : \A y \in S : ~LexLess(y, x)
         IN <<m>> \o SortedKeys(S \ {m})

\* min / max of a non-empty sequence of integers
MinOf(s) == CHOOSE x \in Range(s) : \A y \in Range(s) : x <= y
MaxOf(s) == CHOOSE x \in Range(s) : \A y \in Range(s) : x >= y

\* .agg(n_passengers=("PassengerId","count"), avg_fare=("Fare","mean"),
\*      min_fare=("Fare","min"), max_fare=("Fare","max")) over one group;
\* the fare statistics skip missing fares and are missing when none is left
agg_fare(rows) ==
    LET present == Mask(rows, Tuple([i \in 1..Len(rows) |-> ~IsNA(rows[i].Fare)]))
        fares == Tuple([i \in 1..Len(present) |-> Val(present[i].Fare)])
    IN [n_passengers |-> Len(rows),
        avg_fare |-> IF fares = <<>> THEN NA ELSE Some(<<SumSeq(fares), Len(fares)>>),
        min_fare |-> IF fares = <<>> THEN NA ELSE Some(MinOf(fares)),
        max_fare |-> IF fares = <<>> THEN NA ELSE Some(MaxOf(fares))]

\* the body of family_groups on the loaded frame: <<df, result>>
families(base) ==
    LET df == WithColumn(base, "family_size", Tuple([i \in 1..Len(base) |-> family_size(base[i])]))
        keys == SortedKeys({<<df[i].Pclass, df[i].family_size>> : i \in 1..Len(df)})
        grouped == Tuple([j \in 1..Len(keys) |->
                      [Pclass |-> keys[j][1], family_size |-> keys[j][2]] @@
                      agg_fare(Mask(df, [i \in 1..Len(df) |->
                          /\ df[i].Pclass = keys[j][1]
                          /\ df[i].family_size = keys[j][2]]))])
    IN <<df, SortRows(grouped, Tuple([j \in 1..Len(grouped) |->
                                  <<grouped[j].Pclass, grouped[j].family_size>>]))>>

----------------------------------------------------------------------------
(* last_names *)

IsSpace(c) == c = " "

\* name.split(",", n=1)[0]: the text before the first comma, all of it
\* when there is no comma
RECURSIVE split_first(_)
split_first(name) ==
    IF name = <<>> \/ Head(name) = "," THEN <<>>
    ELSE <<Head(name)>> \o split_first(Tail(name))

RECURSIVE lstrip(_)
lstrip(t) == IF t # <<>> /\ IsSpace(Head(t)) THEN lstrip(Tail(t)) ELSE t

RECURSIVE rstrip(_)
rstrip(t) ==
    IF t # <<>> /\ IsSpace(t[Len(t)]) THEN rstrip(SubSeq(t, 1, Len(t) - 1)) ELSE t

\* str.strip()
strip(t) == rstrip(lstrip(t))

\* last_name without .str.strip()
last_name_unstripped(name) == split_first(name)

\* the last name of one Name cell: .str.split(",", n=1).str[0].str.strip()
last_name(name) == strip(split_first(name))

\* the distinct values of a sequence in order of first appearance
RECURSIVE Distinct(_)
Distinct(s) ==
    IF s = <<>> THEN <<>>
    ELSE LET d == Distinct(SubSeq(s, 1, Len(s) - 1))
         IN IF s[Len(s)] \in Range(d) THEN d ELSE Append(d, s[Len(s)])

\* series.value_counts(): one entry per distinct value, most frequent
\* first, equal counts in order of first appearance
value_counts(s) ==
    LET d == Distinct(s)
        counted == Tuple([j \in 1..Len(d) |->
                      [name |-> d[j],
                       count |-> Cardinality({i \in 1..Len(s) : s[i] = d[j]})]])
    IN SortRows(counted, Tuple([j \in 1..Len(counted) |-> <<0 - counted[j].count>>]))

\* the body of last_names on the loaded frame; the second sort finds the
\* series already in descending order and keeps it
surnames(base) ==
    LET last_ == Tuple([i \in 1..Len(base) |-> last_name(base[i].Name)])
        vc == value_counts(last_)
    IN SortRows(vc, Tuple([j \in 1..Len(vc) |-> <<0 - vc[j].count>>]))

----------------------------------------------------------------------------
(* determine_age_division and visualize_age_division *)

\* the ascending sequence of a sequence of integers
sorted(s) == LET idx == ArgSort(Tuple([i \in 1..Len(s) |-> <<s[i]>>]))
             IN Tuple([i \in 1..Len(s) |-> s[idx[i]]])

\* Series.median() of the non-missing ages, as a fraction <<num, den>>:
\* the middle value, the mean of the two middle values for an even count,
\* missing when no age is present
median(ages) ==
    LET s == sorted(ages)
        n == Len(s)
    IN IF n = 0 THEN NA
       ELSE IF n % 2 = 1 THEN Some(<<s[(n + 1) \div 2], 1>>)
       ELSE Some(<<s[n \div 2] + s[(n \div 2) + 1], 2>>)

\* df.groupby("Pclass")["Age"].median()
class_medians(df) ==
    [c \in {df[i].Pclass : i \in 1..Len(df)} |->
        LET rows == Mask(df, Tuple([i \in 1..Len(df) |->
                        df[i].Pclass = c /\ ~IsNA(df[i].Age)]))
        IN median(Tuple([i \in 1..Len(rows) |-> Val(rows[i].Age)]))]

\* older_passenger with >= in place of >
older_or_equal(r, medians) ==
    IF IsNA(r.Age) THEN FALSE
    ELSE LET m == Val(medians[r.Pclass])
         IN Val(r.Age) * m[2] >= m[1]

\* lambda r: False if pd.isna(r["Age"]) else r["Age"] > class_medians.loc[r["Pclass"]]
older_passenger(r, medians) ==
    IF IsNA(r.Age) THEN FALSE
    ELSE LET m == Val(medians[r.Pclass])
         IN Val(r.Age) * m[2] > m[1]

\* the body of determine_age_division on the loaded frame: the returned df
age_division(base) ==
    LET medians == class_medians(base)
    IN WithColumn(base, "older_passenger",
                  Tuple([i \in 1..Len(base) |-> older_passenger(base[i], medians)]))

BoolRank(b) == IF b THEN 1 ELSE 0

\* the table visualize_age_division groups out of determine_age_division():
\* one row per observed (Pclass, older_passenger), keys ascending;
\* survival_rate = n_survivors / n_passengers.replace(0, pd.NA)
division_summary(df) ==
    LET keys == SortedKeys({<<df[i].Pclass, BoolRank(df[i].older_passenger)>> :
                              i \in 1..Len(df)})
    IN Tuple([j \in 1..Len(keys) |->
          LET a == agg_survived(Mask(df, [i \in 1..Len(df) |->
                      /\ df[i].Pclass = keys[j][1]
                      /\ BoolRank(df[i].older_passenger) = keys[j][2]]))
          IN [Pclass |-> keys[j][1], older_passenger |-> keys[j][2] = 1,
              n_passengers |-> a.n_passengers, n_survivors |-> a.n_survivors,
              survival_rate |-> IF a.n_passengers = 0 THEN NA
                                ELSE Some(<<a.n_survivors, a.n_passengers>>)]])

----------------------------------------------------------------------------
(* _load_titanic: @lru_cache(maxsize=1) around pd.read_csv(TITANIC_URL) *)

Threads == {1, 2}
Main == 1           \* the thread that runs the dashboard script

\* a loader without the cache: every lookup misses
CacheMiss == FALSE

\* the cache lookup of the lru_cache wrapper finds the (only) key
CacheHit == cache # NA

\* the frame a completed call of _load_titanic returns
Loaded == IF CacheHit THEN Val(cache) ELSE source

\* df = _load_titanic() without .copy(): df is the cached frame itself
cached_alias(base, df) == df

\* df = _load_titanic().copy(): the columns a function then assigns to df
\* go to the copy, so the cached frame `base` is what stays in the cache
cached_after(base, df) == base

\* A whole call of _load_titanic by the script thread in which pd.read_csv
\* raises: nothing is cached and the error propagates to the caller, which
\* is abandoned.
LoadRaises ==
    /\ ~CacheHit
    /\ fetches < MaxFetches
    /\ fetches' = fetches + 1
    /\ got' = [got EXCEPT ![Main] = 0]
    /\ raised' = TRUE
    /\ UNCHANGED <<source, cache, instance, pc, demo, fam, names, aged, division, equal_levels>>

\* A whole call of _load_titanic by the script thread that returns: a hit
\* returns the cached object, a miss reads the source and caches the new
\* object.  `kept` is the content of the cached object when the caller is
\* done with the frame it was given.
LoadReturns(kept) ==
    /\ CacheHit \/ fetches < MaxFetches
    /\ fetches' = IF CacheHit THEN fetches ELSE fetches + 1
    /\ instance' = IF CacheHit THEN instance ELSE fetches + 1
    /\ cache' = Some(kept)
    /\ got' = [got EXCEPT ![Main] = instance']
    /\ raised' = FALSE
    /\ UNCHANGED <<source, pc, equal_levels>>

\* a direct call of the loader
load_titanic ==
    \/ LoadRaises
    \/ LoadReturns(Loaded) /\ UNCHANGED <<demo, fam, names, aged, division>>

----------------------------------------------------------------------------
(* The functions the dashboard calls, each as one step *)

survival_demographics ==
    \/ LoadRaises
    \/ /\ LoadReturns(cached_after(Loaded, with_age_group(Loaded)))
       /\ demo' = Some(grouped_demographics(with_age_group(Loaded)))
       /\ UNCHANGED <<fam, names, aged, division>>

\* data = survival_demographics(); the figure is built from data alone
visualize_demographic == survival_demographics

family_groups ==
    \/ LoadRaises
    \/ LET r == families(Loaded)
       IN /\ LoadReturns(cached_after(Loaded, r[1]))
          /\ fam' = Some(r[2])
          /\ UNCHANGED <<demo, names, aged, division>>

\* data = family_groups(); the figure is built from data alone
visualize_families == family_groups

\* reads the cached frame itself and assigns nothing to it
last_names ==
    \/ LoadRaises
    \/ /\ LoadReturns(Loaded)
       /\ names' = Some(surnames(Loaded))
       /\ UNCHANGED <<demo, fam, aged, division>>

determine_age_division ==
    \/ LoadRaises
    \/ LET df == age_division(Loaded)
       IN /\ LoadReturns(cached_after(Loaded, df))
          /\ aged' = Some(df)
          /\ UNCHANGED <<demo, fam, names, division>>

visualize_age_division ==
    \/ LoadRaises
    \/ LET df == age_division(Loaded)
       IN /\ LoadReturns(cached_after(Loaded, df))
          /\ aged' = Some(df)
          /\ division' = Some(division_summary(df))
          /\ UNCHANGED <<demo, fam, names>>

----------------------------------------------------------------------------
(* _load_titanic called from several threads, step by step.  The wrapper    *)
(* looks the key up, calls pd.read_csv on a miss without holding anything, *)
(* and stores the result afterwards unless the key has appeared meanwhile. *)

\* the lookup: a hit returns the cached object at once, a miss starts
\* pd.read_csv, which will build a new DataFrame object
Call(t) ==
    /\ pc[t] = "idle"
    /\ IF CacheHit
       THEN /\ got' = [got EXCEPT ![t] = instance]
            /\ UNCHANGED <<pc, fetches>>
       ELSE /\ fetches < MaxFetches
            /\ fetches' = fetches + 1
            /\ pc' = [pc EXCEPT ![t] = "fetching"]
            /\ got' = [got EXCEPT ![t] = fetches + 1]
    /\ raised' = FALSE
    /\ UNCHANGED <<source, cache, instance, demo, fam, names, aged, division, equal_levels>>

\* pd.read_csv returns: the result is stored if the cache is still empty;
\* either way the caller gets the object its own read built
FetchReturns(t) ==
    /\ pc[t] = "fetching"
    /\ pc' = [pc EXCEPT ![t] = "idle"]
    /\ IF CacheHit
       THEN UNCHANGED <<cache, instance>>
       ELSE cache' = Some(source) /\ instance' = got[t]
    /\ raised' = FALSE
    /\ UNCHANGED <<source, fetches, got, demo, fam, names, aged, division, equal_levels>>

\* pd.read_csv raises: nothing is stored
FetchRaises(t) ==
    /\ pc[t] = "fetching"
    /\ pc' = [pc EXCEPT ![t] = "idle"]
    /\ got' = [got EXCEPT ![t] = 0]
    /\ raised' = TRUE
    /\ UNCHANGED <<source, cache, instance, fetches, demo, fam, names, aged, division, equal_levels>>

----------------------------------------------------------------------------
(* Rosters: the tables the source can parse to *)

\* one passenger as the CSV gives it, before the row gets its PassengerId
Passenger(survived, pclass, name, sex, age, sibsp, parch, fare) ==
    [Survived |-> survived, Pclass |-> pclass, Name |-> name, Sex |-> sex,
     Age |-> age, SibSp |-> sibsp, Parch |-> parch, Fare |-> fare]

Roster(f) == [i \in DOMAIN f |-> ("PassengerId" :> i) @@ f[i]]

\* all rosters of 1..n passengers taken from P
Rosters(P, n) == UNION {{Roster(f) : f \in [1..k -> P]} : k \in 1..n}

Braund == <<"B", ",", " ", "O">>

\* a small mixed set of passengers for the runs of the whole dashboard
Passengers ==
    { Passenger(0, 3, Braund, "male", Some(Years(22)), Some(1), Some(0), Some(7)),
      Passenger(1, 1, <<"C", ",", " ", "J">>, "female", Some(Years(38)), Some(1), NA, Some(71)),
      Passenger(1, 3, <<" ", "B", " ">>, "female", NA, NA, Some(2), NA),
      Passenger(0, 1, <<"C", ",", "T", ",">>, "male", Some(Years(12) + 1), Some(0), Some(0), Some(26)) }

\* class, sex, age bucket and survival vary
DemographicAges == {NA, Some(Years(12) + 1)}
DemographicPassengers ==
    { Passenger(v, c, Braund, s, a, Some(0), Some(0), Some(7)) :
        v \in {0, 1}, c \in {1, 2}, s \in {"female", "male"}, a \in DemographicAges }

\* the ages around every bin edge, for one class and sex
BoundaryAges ==
    {NA} \cup {Some(Years(bins[i]) + d) : i \in 1..Len(bins), d \in {0 - 1, 0, 1}}
         \cup {Some(Years(bins[i] + 1)) : i \in 1..Len(bins)}
BoundaryPassengers ==
    { Passenger(1, 3, Braund, "male", a, Some(0), Some(0), Some(7)) : a \in BoundaryAges }

\* class, family members and fare vary
FamilyPassengers ==
    { Passenger(0, c, Braund, "male", Some(Years(22)), sib, par, fare) :
        c \in {1, 2}, sib \in {NA, Some(0), Some(1)}, par \in {NA, Some(2)},
        fare \in {NA, Some(7)} }

\* the name varies: with and without comma, with blanks around the parts
\* (a shorter name shows as one with blanks at its end)
Chars == {"A", ",", " "}
NameLen == 2
NamePassengers ==
    { Passenger(0, 3, n, "male", Some(Years(22)), Some(0), Some(0), Some(7)) :
        n \in [1..NameLen -> Chars] }

\* class and age vary
DivisionAges == {NA, Some(Years(20)), Some(Years(24)), Some(Years(24) + 1), Some(Years(30))}
DivisionPassengers ==
    { Passenger(1, c, Braund, "male", a, Some(0), Some(0), Some(7)) :
        c \in {1, 3}, a \in DivisionAges }

----------------------------------------------------------------------------
(* Specifications *)

\* the state when the module has been imported: nothing loaded, nothing called
InitWith(rosters) ==
    /\ source \in rosters
    /\ cache = NA
    /\ instance = 0
    /\ fetches = 0
    /\ pc = [t \in Threads |-> "idle"]
    /\ got = [t \in Threads |-> 0]
    /\ demo = NA
    /\ fam = NA
    /\ names = NA
    /\ aged = NA
    /\ division = NA
    /\ raised = FALSE
    /\ equal_levels \in BOOLEAN

\* the dashboard: every function, called in any order, any number of times
Init == InitWith(Rosters(Passengers, MaxRows))
Next ==
    \/ load_titanic
    \/ survival_demographics
    \/ visualize_demographic
    \/ family_groups
    \/ last_names
    \/ visualize_families
    \/ determine_age_division
    \/ visualize_age_division
Spec == Init /\ [][Next]_vars

InitDemographics == InitWith(Rosters(DemographicPassengers, MaxRows))
InitBoundaries == InitWith(Rosters(BoundaryPassengers, MaxRows))
NextDemographics == survival_demographics \/ visualize_demographic
SpecDemographics == InitDemographics /\ [][NextDemographics]_vars
SpecBoundaries == InitBoundaries /\ [][NextDemographics]_vars

InitFamilies == InitWith(Rosters(FamilyPassengers, MaxRows))
NextFamilies == family_groups \/ visualize_families
SpecFamilies == InitFamilies /\ [][NextFamilies]_vars

InitNames == InitWith(Rosters(NamePassengers, MaxRows))
NextNames == last_names
SpecNames == InitNames /\ [][NextNames]_vars

InitDivision == InitWith(Rosters(DivisionPassengers, MaxAgeRows))
NextDivision == determine_age_division \/ visualize_age_division
SpecDivision == InitDivision /\ [][NextDivision]_vars

\* several threads making their calls of the loader concurrently
NextThreads == \E t \in Threads : Call(t) \/ FetchReturns(t) \/ FetchRaises(t)
SpecThreads == Init /\ [][NextThreads]_vars

----------------------------------------------------------------------------
(* Properties *)

Rows(t) == 1..Len(t)
Count(S) == Cardinality(S)

\* the passengers of the source in class c and of sex x
Of(c, x) == {i \in Rows(source) : source[i].Pclass = c /\ source[i].Sex = x}

\* C1: the table of survival_demographics has (#classes of the roster) x
\* (#sexes of the roster) x 4 rows and holds every (class, sex, age group)
\* of that product in exactly one row.
C1_FullProduct ==
    demo # NA =>
        LET t == Val(demo)
            classes == {source[i].Pclass : i \in Rows(source)}
            sexes == {source[i].Sex : i \in Rows(source)}
        IN /\ Len(t) = Count(classes) * Count(sexes) * 4
           /\ \A c \in classes, x \in sexes, a \in {"Child", "Teen", "Adult", "Senior"} :
                 Count({j \in Rows(t) : t[j].Pclass = c /\ t[j].Sex = x /\ t[j].age_group = a}) = 1

\* a class whose only passengers have no age, next to another class
C1_Witness ==
    /\ demo # NA
    /\ \E i \in Rows(source) :
          /\ \A j \in Rows(source) :
                source[j].Pclass = source[i].Pclass => IsNA(source[j].Age)
          /\ \E j \in Rows(source) :
                source[j].Pclass # source[i].Pclass /\ ~IsNA(source[j].Age)

\* C2: in every row of survival_demographics n_passengers counts the
\* passengers of the cell that got an age group, n_survivors those of them
\* who survived, survival_rate is n_survivors / n_passengers, and 0 for an
\* empty cell; so 0 <= n_survivors <= n_passengers and 0 <= rate <= 1.
C2_CellCounts ==
    demo # NA =>
        \A j \in Rows(Val(demo)) :
            LET r == Val(demo)[j]
                cell == {i \in Of(r.Pclass, r.Sex) : cut(source[i].Age) = Some(r.age_group)}
            IN /\ r.n_passengers = Count(cell)
               /\ r.n_survivors = Count({i \in cell : source[i].Survived = 1})
               /\ r.n_passengers > 0 => r.survival_rate = <<r.n_survivors, r.n_passengers>>
               /\ r.n_passengers = 0 => r.survival_rate = <<0, 1>>
               /\ 0 <= r.n_survivors /\ r.n_survivors <= r.n_passengers
               /\ 0 <= r.survival_rate[1] /\ r.survival_rate[1] <= r.survival_rate[2]
               /\ r.survival_rate[2] > 0

\* a cell with two passengers of whom one survived
C2_Witness ==
    /\ demo # NA
    /\ \E j \in Rows(Val(demo)) :
          Val(demo)[j].n_passengers = 2 /\ Val(demo)[j].n_survivors = 1

\* the passengers of a cell whose age lies in lo..hi years, both included
Within(r, lo, hi) ==
    {i \in Of(r.Pclass, r.Sex) :
        /\ ~IsNA(source[i].Age)
        /\ Years(lo) <= Val(source[i].Age)
        /\ Val(source[i].Age) <= Years(hi)}

\* the passengers of a cell whose age is above lo years and at most hi years
Above(r, lo, hi) ==
    {i \in Of(r.Pclass, r.Sex) :
        /\ ~IsNA(source[i].Age)
        /\ Years(lo) < Val(source[i].Age)
        /\ Val(source[i].Age) <= Years(hi)}

Grouped == {i \in Rows(source) :
               /\ ~IsNA(source[i].Age)
               /\ 0 <= Val(source[i].Age)
               /\ Val(source[i].Age) <= Years(120)}

TotalPassengers(t) == SumSeq(Tuple([j \in 1..Len(t) |-> t[j].n_passengers]))

ClassAges(i) ==
    {k \in Rows(source) : source[k].Pclass = source[i].Pclass /\ ~IsNA(source[k].Age)}

\* the r-th smallest age among the passengers K
Nth(K, r) ==
    CHOOSE v \in {Val(source[k].Age) : k \in K} :
        /\ Count({k \in K : Val(source[k].Age) < v}) < r
        /\ r <= Count({k \in K : Val(source[k].Age) <= v})

\* twice the median age of the passengers K (K not empty)
TwiceMedian(K) == Nth(K, (Count(K) + 1) \div 2) + Nth(K, (Count(K) + 2) \div 2)

\* C4: older_passenger is true iff the age is present and strictly greater
\* than the median of the present ages of the passenger's class (the mean
\* of the two middle ages for an even count).
C4_StrictlyOlder ==
    aged # NA =>
        /\ Len(Val(aged)) = Len(source)
        /\ \A i \in Rows(source) :
              Val(aged)[i].older_passenger =
                 (/\ ~IsNA(source[i].Age)
                  /\ 2 * Val(source[i].Age) > TwiceMedian(ClassAges(i)))

\* a passenger above the median of an even number of ages that lies
\* between two ages, and a passenger whose age is the median of its class
C4_Witness ==
    /\ aged # NA
    /\ \E i \in Rows(source) :
          /\ Val(aged)[i].older_passenger
          /\ Count(ClassAges(i)) = 2
          /\ \A k \in ClassAges(i) : 2 * Val(source[k].Age) # TwiceMedian(ClassAges(i))
    /\ \E i \in Rows(source) :
          /\ ~IsNA(source[i].Age)
          /\ 2 * Val(source[i].Age) = TwiceMedian(ClassAges(i))
          /\ ~Val(aged)[i].older_passenger

\* C5 as stated: the source is fetched at most once per process.
C5_AsStated == fetches <= 1

\* C5 amended: once a fetch has succeeded every later call returns the
\* cached object without fetching: the cache, the identity of the cached
\* object and the number of fetches never change again.  (A fetch that
\* fails caches nothing and the next call fetches again.)
C5_CachedForGood ==
    [][cache # NA =>
          /\ cache' = cache
          /\ instance' = instance
          /\ fetches' = fetches
          /\ got'[Main] = instance]_vars

\* a fetch failed, the next succeeded, and two functions were served
C5_Witness ==
    /\ cache # NA
    /\ fetches = 2
    /\ got[Main] = 2
    /\ demo # NA
    /\ names # NA

\* C6: no function changes the cached table, which keeps the rows and
\* columns of the source, and a function called again returns the table it
\* returned before.
C6_FrameAndIdempotence ==
    [][/\ cache' # NA => Val(cache') = source
       /\ demo # NA => demo' = demo
       /\ fam # NA => fam' = fam
       /\ names # NA => names' = names
       /\ aged # NA => aged' = aged
       /\ division # NA => division' = division]_vars

\* every function has been called
C6_Witness ==
    /\ cache # NA
    /\ demo # NA /\ fam # NA /\ names # NA /\ aged # NA /\ division # NA

IsBlank(t) == \A k \in 1..Len(t) : t[k] = " "

\* l is the text of name before its first comma (all of name without a
\* comma) without the blanks around it
IsLastNameOf(l, name) ==
    \E k \in 0..Len(name) :
        /\ \A x \in 1..k : name[x] # ","
        /\ k = Len(name) \/ name[k + 1] = ","
        /\ \E a \in 0..k, b \in 0..k :
              /\ a + b <= k
              /\ IsBlank(SubSeq(name, 1, a))
              /\ IsBlank(SubSeq(name, k - b + 1, k))
              /\ l = SubSeq(name, a + 1, k - b)
              /\ l # <<>> => l[1] # " " /\ l[Len(l)] # " "

\* C7: the counts of last_names add up to the number of rows, each row
\* counting once for the text before the first comma of its name, trimmed.
C7_CountsAddUp ==
    names # NA =>
        LET t == Val(names)
        IN /\ SumSeq(Tuple([j \in 1..Len(t) |-> t[j].count])) = Len(source)
           /\ \A j \in Rows(t) :
                 t[j].count = Count({i \in Rows(source) : IsLastNameOf(t[j].name, source[i].Name)})
           /\ \A j \in Rows(t), k \in Rows(t) : t[j].name = t[k].name => j = k

\* two rows with one last name, one with a comma after it, the other
\* without a comma and with a blank before it
C7_Witness ==
    /\ names # NA
    /\ Len(source) = 2
    /\ Len(Val(names)) = 1
    /\ Val(names)[1].name # <<>>
    /\ Val(names)[1].count = 2
    /\ \E i \in Rows(source) :
          \E x \in 1..Len(source[i].Name) : source[i].Name[x] = ","
    /\ \E i \in Rows(source) :
          /\ source[i].Name[1] = " "
          /\ \A x \in 1..Len(source[i].Name) : source[i].Name[x] # ","

\* SibSp + Parch + 1 with a missing count taken as 0
Size(i) ==
    (IF IsNA(source[i].SibSp) THEN 0 ELSE Val(source[i].SibSp))
    + (IF IsNA(source[i].Parch) THEN 0 ELSE Val(source[i].Parch)) + 1

\* C8: family_groups has one row per (class, family size) that some
\* passenger has and no other row, every family size is at least 1, and
\* the n_passengers add up to the number of source rows.
C8_FamilyCells ==
    fam # NA =>
        LET t == Val(fam)
        IN /\ \A j \in Rows(t) :
                 /\ t[j].family_size >= 1
                 /\ t[j].n_passengers =
                      Count({i \in Rows(source) :
                                source[i].Pclass = t[j].Pclass /\ Size(i) = t[j].family_size})
                 /\ t[j].n_passengers >= 1
           /\ \A i \in Rows(source) :
                 Count({j \in Rows(t) :
                           t[j].Pclass = source[i].Pclass /\ t[j].family_size = Size(i)}) = 1
           /\ TotalPassengers(t) = Len(source)

\* a passenger without sibling count, and two passengers in one cell
C8_Witness ==
    /\ fam # NA
    /\ \E i \in Rows(source) : IsNA(source[i].SibSp) /\ IsNA(source[i].Parch)
    /\ \E j \in Rows(Val(fam)) : Val(fam)[j].n_passengers = 2 /\ Val(fam)[j].family_size = 1

\* C9: the rows of survival_demographics are sorted by class, then sex,
\* then age group in the order Child < Teen < Adult < Senior.
C9_SortedByCategory ==
    demo # NA =>
        \A j \in Rows(Val(demo)) :
            j > 1 =>
               LET p == Val(demo)[j - 1]
                   r == Val(demo)[j]
               IN \/ p.Pclass < r.Pclass
                  \/ p.Pclass = r.Pclass /\ p.Sex = "female" /\ r.Sex = "male"
                  \/ /\ p.Pclass = r.Pclass
                     /\ p.Sex = r.Sex
                     /\ <<p.age_group, r.age_group>> \in
                           {<<"Child", "Teen">>, <<"Child", "Adult">>, <<"Child", "Senior">>,
                            <<"Teen", "Adult">>, <<"Teen", "Senior">>, <<"Adult", "Senior">>}

\* C10: no two threads are inside the fetch at once, and the threads that
\* got a table from the loader all got the same object.
C10_SingleFetch ==
    \A t \in Threads, u \in Threads :
        t # u =>
           /\ ~(pc[t] = "fetching" /\ pc[u] = "fetching")
           /\ pc[t] = "idle" /\ pc[u] = "idle" /\ got[t] # 0 /\ got[u] # 0 => got[t] = got[u]

====
